---- MODULE Spec2Model ----
(***************************************************************************)
(* State-machine model of the Chase session engine (Game, Entities and the *)
(* parts of UIManager that write Game fields).                             *)
(*                                                                         *)
(* Units.  Positions and sizes are whole pixels.  Times (time, dt,         *)
(* appleTimer) are whole tenths of a second, so the source's 60 s is 600   *)
(* and the test's dt = 0.1 is 1.  Speeds are pixels per second.            *)
(* Math.random() is a draw k / RandDen with k taken from a small set.      *)
(* Where the source computes with irrational factors (1 / sqrt 2, the      *)
(* normalised direction vector) the model truncates to whole pixels.       *)
(***************************************************************************)
EXTENDS Integers, Sequences, FiniteSets, TLC

\* ------------------------------------------------------------ constants
TimeScale == 10
PlayerSize == 50
PlayerSpeed == 250
BadGuySize == 50
BaseSpeed == 80
SpeedPerPoint == 5
AppleSize == 40
ObstacleSize == 60
InitialTime == 60
SpawnPeriod == 2
AppleAttempts == 20
ObstacleAttempts == 50
BadGuyMargin == 100
DeadZone == 5
NumLevelColors == 6
StandardTime == 1
StandardScore == 1
BeepFreq == 440
SadFreq == 150

\* ------------------------------------------------------------ bounds
\* Rendering frames and calls of start modelled per run.
MaxFrames == 2
MaxSessions == 2

\* Draws of Math.random(), each k / RandDen: <<side, y>> of the pursuer in
\* start, <<x, y>> of an obstacle and of an apple.
RandDen == 100
BadGuyDraws == {<<0, 50>>, <<75, 0>>}
ObstacleDraws == {<<50, 50>>, <<50, 75>>, <<47, 54>>, <<48, 56>>, <<48, 48>>}
AppleDraws == {<<50, 50>>, <<60, 55>>, <<50, 75>>}

\* Play-area sizes (window.innerWidth x window.innerHeight at construction).
Sizes == {<<800, 600>>, <<200, 200>>}

\* Frame intervals in tenths of a second: 0.1 s, 2.1 s, 60 s.
Dts == {1, 21, 600}

\* High score found in localStorage by the constructor.
StoredScores == {0}

VARIABLES
    width, height,      \* canvas.width, canvas.height
    player,             \* <<>> (null) or <<Player>>
    badGuy,             \* <<>> (null) or <<BadGuy>>
    apples,             \* sequence of Apple
    obstacles,          \* sequence of Obstacle
    score, time, highScore,
    isRunning, isPaused,
    sinceLastTime,      \* now - lastTime, in tenths of a second
    settings,           \* [audio, difficulty, inputType]
    audioCtx,           \* TRUE once the AudioContext was created
    appleTimer,
    backgroundColor,    \* <<>> (never set) or <<index into levelColors>>
    storedHighScore,    \* localStorage 'highScore'
    pendingFrames,      \* loop callbacks requested for the next rendering frame
    out,                \* callbacks and collaborator calls made by the last step
    lastOp,             \* the last step taken and its frame interval
    frames, sessions,   \* counters that bound the exploration
    gameOverCalls       \* onGameOver invocations since the last start

vars == <<width, height, player, badGuy, apples, obstacles, score, time,
          highScore, isRunning, isPaused, sinceLastTime, settings, audioCtx,
          appleTimer, backgroundColor, storedHighScore, pendingFrames, out,
          lastOp, frames, sessions, gameOverCalls>>

\* ------------------------------------------------------------ arithmetic
Max(a, b) == IF a >= b THEN a ELSE b
Min(a, b) == IF a <= b THEN a ELSE b

\* Division truncating toward zero (b > 0).
TruncDiv(a, b) == IF a >= 0 THEN a \div b ELSE 0 - ((0 - a) \div b)

\* Math.ceil(t / TimeScale) for t >= 0.
CeilSeconds(t) == (t + TimeScale - 1) \div TimeScale

RECURSIVE SqrtSearch(_, _, _)
SqrtSearch(n, lo, hi) ==
    IF lo >= hi THEN lo
    ELSE LET mid == (lo + hi + 1) \div 2
         IN IF mid * mid <= n THEN SqrtSearch(n, mid, hi)
            ELSE SqrtSearch(n, lo, mid - 1)

\* floor(Math.sqrt(n))
ISqrt(n) == SqrtSearch(n, 0, Min(n, 40000))

\* ------------------------------------------------------------ Entities
Entity(x, y, size) ==
    [x |-> x, y |-> y, width |-> size, height |-> size, vx |-> 0, vy |-> 0]

\* new Player(x, y, charType).  The character type only selects the image.
\* The player's vx, vy are assigned by move / moveTowards and never read by
\* the program; the model leaves them at 0.
NewPlayer(x, y) == Entity(x, y, PlayerSize)

NewBadGuy(x, y) ==
    [x |-> x, y |-> y, width |-> BadGuySize, height |-> BadGuySize,
     vx |-> 0, vy |-> 0,
     speed |-> [n |-> BaseSpeed, d |-> 1],
     speedMultiplier |-> [n |-> 1, d |-> 1]]

NewApple(x, y, type) ==
    [x |-> x, y |-> y, width |-> AppleSize, height |-> AppleSize,
     vx |-> 0, vy |-> 0, type |-> type]

NewObstacle(x, y) == Entity(x, y, ObstacleSize)

\* Entity.checkCollision: axis-aligned box overlap.
checkCollision(a, b) ==
    /\ a.x < b.x + b.width
    /\ a.x + a.width > b.x
    /\ a.y < b.y + b.height
    /\ a.y + a.height > b.y

\* checkCircleCollision with the width as the radius instead of half of it.
checkCircleCollision_fullWidth(a, b) ==
    LET dx2 == (2 * a.x + a.width) - (2 * b.x + b.width)
        dy2 == (2 * a.y + a.height) - (2 * b.y + b.height)
        rr2 == 2 * (a.width + b.width)
    IN dx2 * dx2 + dy2 * dy2 < rr2 * rr2

\* Entity.checkCircleCollision: dist(centers) < radius + radius, with
\* cx = x + width / 2 and radius = width / 2; both sides doubled and squared.
checkCircleCollision(a, b) ==
    LET dx2 == (2 * a.x + a.width) - (2 * b.x + b.width)
        dy2 == (2 * a.y + a.height) - (2 * b.y + b.height)
        rr2 == a.width + b.width
    IN dx2 * dx2 + dy2 * dy2 < rr2 * rr2

NoKeys == [up |-> FALSE, down |-> FALSE, left |-> FALSE, right |-> FALSE]

\* Player.move
move(p, directions, dt) ==
    LET vy0 == (IF directions.down THEN PlayerSpeed ELSE 0)
               - (IF directions.up THEN PlayerSpeed ELSE 0)
        vx0 == (IF directions.right THEN PlayerSpeed ELSE 0)
               - (IF directions.left THEN PlayerSpeed ELSE 0)
        diag == vx0 # 0 /\ vy0 # 0
        sx == IF diag THEN TruncDiv(vx0 * 707 * dt, 1000 * TimeScale)
              ELSE TruncDiv(vx0 * dt, TimeScale)
        sy == IF diag THEN TruncDiv(vy0 * 707 * dt, 1000 * TimeScale)
              ELSE TruncDiv(vy0 * dt, TimeScale)
    IN [p EXCEPT !.x = p.x + sx, !.y = p.y + sy]

\* Player.moveTowards
moveTowards(p, targetX, targetY, dt) ==
    LET cx == p.x + p.width \div 2
        cy == p.y + p.height \div 2
        dx == targetX - cx
        dy == targetY - cy
        d2 == dx * dx + dy * dy
        dist == ISqrt(d2)
    IN IF d2 < DeadZone * DeadZone
       THEN p
       ELSE [p EXCEPT !.x = p.x + TruncDiv(dx * PlayerSpeed * dt, dist * TimeScale),
                      !.y = p.y + TruncDiv(dy * PlayerSpeed * dt, dist * TimeScale)]

\* Player.handleScreenBounds
handleScreenBounds(p, w, h) ==
    [p EXCEPT !.x = Max(0, Min(w - p.width, p.x)),
              !.y = Max(0, Min(h - p.height, p.y))]

\* BadGuy.update adding the score term to the speed of the previous call.
badGuyUpdate_accumulates(b, p, dt, sc) ==
    LET speed == [n |-> (b.speed.n \div b.speed.d + sc * SpeedPerPoint) * b.speedMultiplier.n,
                  d |-> b.speedMultiplier.d]
        dx == (p.x + p.width \div 2) - (b.x + b.width \div 2)
        dy == (p.y + p.height \div 2) - (b.y + b.height \div 2)
        d2 == dx * dx + dy * dy
        dist == ISqrt(d2)
        vx1 == IF d2 > 0 THEN TruncDiv(dx * speed.n, dist * speed.d) ELSE b.vx
        vy1 == IF d2 > 0 THEN TruncDiv(dy * speed.n, dist * speed.d) ELSE b.vy
        sx == IF d2 > 0 THEN TruncDiv(dx * speed.n * dt, dist * speed.d * TimeScale)
              ELSE TruncDiv(b.vx * dt, TimeScale)
        sy == IF d2 > 0 THEN TruncDiv(dy * speed.n * dt, dist * speed.d * TimeScale)
              ELSE TruncDiv(b.vy * dt, TimeScale)
    IN [b EXCEPT !.speed = speed, !.vx = vx1, !.vy = vy1,
                 !.x = b.x + sx, !.y = b.y + sy]

\* BadGuy.update
badGuyUpdate(b, p, dt, sc) ==
    LET speed == [n |-> (BaseSpeed + sc * SpeedPerPoint) * b.speedMultiplier.n,
                  d |-> b.speedMultiplier.d]
        dx == (p.x + p.width \div 2) - (b.x + b.width \div 2)
        dy == (p.y + p.height \div 2) - (b.y + b.height \div 2)
        d2 == dx * dx + dy * dy
        dist == ISqrt(d2)
        vx1 == IF d2 > 0 THEN TruncDiv(dx * speed.n, dist * speed.d) ELSE b.vx
        vy1 == IF d2 > 0 THEN TruncDiv(dy * speed.n, dist * speed.d) ELSE b.vy
        sx == IF d2 > 0 THEN TruncDiv(dx * speed.n * dt, dist * speed.d * TimeScale)
              ELSE TruncDiv(b.vx * dt, TimeScale)
        sy == IF d2 > 0 THEN TruncDiv(dy * speed.n * dt, dist * speed.d * TimeScale)
              ELSE TruncDiv(b.vy * dt, TimeScale)
    IN [b EXCEPT !.speed = speed, !.vx = vx1, !.vy = vy1,
                 !.x = b.x + sx, !.y = b.y + sy]

\* ------------------------------------------------------------ Game
\* The Game object and the collaborators it writes, as one record.
G ==
    [width |-> width, height |-> height, player |-> player, badGuy |-> badGuy,
     apples |-> apples, obstacles |-> obstacles, score |-> score, time |-> time,
     highScore |-> highScore, isRunning |-> isRunning, isPaused |-> isPaused,
     sinceLastTime |-> sinceLastTime, settings |-> settings,
     audioCtx |-> audioCtx, appleTimer |-> appleTimer,
     backgroundColor |-> backgroundColor, storedHighScore |-> storedHighScore,
     pendingFrames |-> pendingFrames, out |-> <<>>,
     gameOverCalls |-> gameOverCalls]

\* A callback of the UI collaborator, or a call on another collaborator.
Emit(g, cb, arg) == [g EXCEPT !.out = Append(@, [cb |-> cb, arg |-> arg])]

\* Game.playSound
playSound(g, freq) ==
    IF ~g.settings.audio \/ ~g.audioCtx THEN g ELSE Emit(g, "playSound", freq)

\* Game.updateUI
updateUI(g) ==
    Emit(Emit(g, "onScoreUpdate", g.score), "onTimeUpdate", CeilSeconds(g.time))

\* gameOver that also clears the score.
gameOver_resetScore(g) ==
    LET g1 == playSound([g EXCEPT !.isRunning = FALSE], SadFreq)
        g2 == IF g1.score > g1.highScore
              THEN Emit([g1 EXCEPT !.highScore = g1.score,
                                   !.storedHighScore = g1.score],
                        "setItem", g1.score)
              ELSE g1
    IN Emit([g2 EXCEPT !.gameOverCalls = @ + 1, !.score = 0],
            "onGameOver", g2.score)

\* gameOver with the test score >= highScore.
gameOver_writesTies(g) ==
    LET g1 == playSound([g EXCEPT !.isRunning = FALSE], SadFreq)
        g2 == IF g1.score >= g1.highScore
              THEN Emit([g1 EXCEPT !.highScore = g1.score,
                                   !.storedHighScore = g1.score],
                        "setItem", g1.score)
              ELSE g1
    IN Emit([g2 EXCEPT !.gameOverCalls = @ + 1], "onGameOver", g2.score)

\* gameOver telling the UI before it records a new high score.
gameOver_notifiesFirst(g) ==
    LET g1 == playSound([g EXCEPT !.isRunning = FALSE], SadFreq)
        g2 == Emit([g1 EXCEPT !.gameOverCalls = @ + 1], "onGameOver", g1.score)
    IN IF g2.score > g2.highScore
       THEN Emit([g2 EXCEPT !.highScore = g2.score,
                            !.storedHighScore = g2.score],
                 "setItem", g2.score)
       ELSE g2

\* Game.gameOver
gameOver(g) ==
    LET g1 == playSound([g EXCEPT !.isRunning = FALSE], SadFreq)
        g2 == IF g1.score > g1.highScore
              THEN Emit([g1 EXCEPT !.highScore = g1.score,
                                   !.storedHighScore = g1.score],
                        "setItem", g1.score)
              ELSE g1
    IN Emit([g2 EXCEPT !.gameOverCalls = @ + 1], "onGameOver", g2.score)

\* updateLevel stopping at the last colour instead of wrapping around.
updateLevel_noWrap(g) ==
    [g EXCEPT !.backgroundColor = <<Min(g.score \div 10, NumLevelColors - 1)>>]

\* Game.updateLevel
updateLevel(g) ==
    [g EXCEPT !.backgroundColor = <<(g.score \div 10) % NumLevelColors>>]

RemoveAt(s, i) == SubSeq(s, 1, i - 1) \o SubSeq(s, i + 1, Len(s))

\* eatApple without this.time += 1.
eatApple_noTime(g, index) ==
    LET g1 == Emit([g EXCEPT !.apples = RemoveAt(@, index)], "splice", index)
        g2 == [g1 EXCEPT !.score = @ + StandardScore]
    IN updateLevel(playSound(Emit(g2, "onScoreUpdate", g2.score), BeepFreq))

\* Game.eatApple(index - 1): sequences are 1-based.  The apple's type is not
\* read.  The splice is logged with the callbacks.
eatApple(g, index) ==
    LET g1 == Emit([g EXCEPT !.apples = RemoveAt(@, index)], "splice", index)
        g2 == [g1 EXCEPT !.score = @ + StandardScore,
                         !.time = @ + StandardTime * TimeScale]
    IN updateLevel(playSound(Emit(g2, "onScoreUpdate", g2.score), BeepFreq))

\* The position Math.random() * (extent - size) of a draw k / RandDen.
DrawPos(k, extent, size) == (k * (extent - size)) \div RandDen

\* A while loop of bounded rejection sampling, from `attempts` on: every
\* attempt draws one of `cands`; a draw in `good` ends the loop with it, any
\* other draw counts as an attempt.  The results the loop can end with, <<>>
\* when the cap is reached.
RECURSIVE RetryLoop(_, _, _, _)
RetryLoop(good, cands, attempts, cap) ==
    IF attempts >= cap THEN {<<>>}
    ELSE {<<c>> : c \in good}
         \cup (IF good # cands THEN RetryLoop(good, cands, attempts + 1, cap)
               ELSE {})

\* spawnApple accepting its first draw without looking at the obstacles.
SpawnLoop_noCheck(obs, w, h) ==
    LET cands == {NewApple(DrawPos(r[1], w, AppleSize),
                           DrawPos(r[2], h, AppleSize), "standard") :
                  r \in AppleDraws}
        good == cands
    IN RetryLoop(good, cands, 0, AppleAttempts)

\* Game.spawnApple: what its loop can add to the apples.
SpawnLoop(obs, w, h) ==
    LET cands == {NewApple(DrawPos(r[1], w, AppleSize),
                           DrawPos(r[2], h, AppleSize), "standard") :
                  r \in AppleDraws}
        good == {a \in cands :
                 \A j \in 1..Len(obs) : ~checkCollision(obs[j], a)}
    IN RetryLoop(good, cands, 0, AppleAttempts)

\* Game.spawnApple with the outcome `spawn` of its draws.
spawnApple(g, spawn) == [g EXCEPT !.apples = @ \o spawn]

\* Game.generateObstacles, the while loop for one obstacle.
PlaceLoop(obs, w, h) ==
    LET p == NewPlayer(w \div 2, h \div 2)
        cands == {NewObstacle(DrawPos(r[1], w, ObstacleSize),
                              DrawPos(r[2], h, ObstacleSize)) :
                  r \in ObstacleDraws}
        good == {o \in cands :
                 /\ ~checkCircleCollision(o, p)
                 /\ \A j \in 1..Len(obs) : ~checkCircleCollision(o, obs[j])}
    IN RetryLoop(good, cands, 0, ObstacleAttempts)

\* Game.generateObstacles(count): the obstacle lists it can produce.
RECURSIVE generateObstacles(_, _, _, _, _)
generateObstacles(obs, w, h, i, count) ==
    IF i >= count THEN {obs}
    ELSE UNION {generateObstacles(obs \o r, w, h, i + 1, count) :
                r \in PlaceLoop(obs, w, h)}

\* The obstacle loop of Game.update for the player and for the pursuer.
RECURSIVE Resolve(_, _, _, _, _)
Resolve(e, oldX, oldY, obs, i) ==
    IF i > Len(obs) THEN e
    ELSE LET ex == [e EXCEPT !.x = oldX]
             e1 == IF checkCollision(e, obs[i])
                   THEN IF checkCollision(ex, obs[i])
                        THEN [ex EXCEPT !.y = oldY] ELSE ex
                   ELSE e
         IN Resolve(e1, oldX, oldY, obs, i + 1)

RECURSIVE EatApples(_, _)

\* The apple loop leaving after the first apple it eats.
EatApples_stopsAtFirst(g, i) ==
    IF i < 1 THEN g
    ELSE IF checkCircleCollision(g.player[1], g.apples[i])
         THEN eatApple(g, i) ELSE EatApples(g, i - 1)

\* The apple loop of Game.update, from index i down to 1.
EatApples(g, i) ==
    IF i < 1 THEN g
    ELSE EatApples(IF checkCircleCollision(g.player[1], g.apples[i])
                   THEN eatApple(g, i) ELSE g, i - 1)

\* update with the timer test written time < 0.
update_strictTimer(g, dt, inp, spawn) ==
    LET t1 == g.time - dt
    IN IF t1 < 0 THEN gameOver([g EXCEPT !.time = 0])
       ELSE
       LET g1 == Emit([g EXCEPT !.time = t1], "onTimeUpdate", CeilSeconds(t1))
           at == g1.appleTimer + dt
           g2 == IF at > SpawnPeriod * TimeScale
                 THEN spawnApple([g1 EXCEPT !.appleTimer = 0], spawn)
                 ELSE [g1 EXCEPT !.appleTimer = at]
       IN IF g2.player = <<>> \/ g2.badGuy = <<>> THEN g2
          ELSE
          LET old == g2.player[1]
              moved == IF g2.settings.inputType = "mouse"
                       THEN moveTowards(old, inp.mouseX, inp.mouseY, dt)
                       ELSE move(old, inp.keys, dt)
              p == Resolve(handleScreenBounds(moved, g2.width, g2.height),
                           old.x, old.y, g2.obstacles, 1)
              oldB == g2.badGuy[1]
              b == Resolve(badGuyUpdate(oldB, p, dt, g2.score),
                           oldB.x, oldB.y, g2.obstacles, 1)
              g3 == [g2 EXCEPT !.player = <<p>>, !.badGuy = <<b>>]
          IN IF checkCircleCollision(p, b) THEN gameOver(g3)
             ELSE EatApples(g3, Len(g3.apples))

\* update without the clamp this.time = 0.
update_noClamp(g, dt, inp, spawn) ==
    LET t1 == g.time - dt
    IN IF t1 <= 0 THEN gameOver([g EXCEPT !.time = t1])
       ELSE
       LET g1 == Emit([g EXCEPT !.time = t1], "onTimeUpdate", CeilSeconds(t1))
           at == g1.appleTimer + dt
           g2 == IF at > SpawnPeriod * TimeScale
                 THEN spawnApple([g1 EXCEPT !.appleTimer = 0], spawn)
                 ELSE [g1 EXCEPT !.appleTimer = at]
       IN IF g2.player = <<>> \/ g2.badGuy = <<>> THEN g2
          ELSE
          LET old == g2.player[1]
              moved == IF g2.settings.inputType = "mouse"
                       THEN moveTowards(old, inp.mouseX, inp.mouseY, dt)
                       ELSE move(old, inp.keys, dt)
              p == Resolve(handleScreenBounds(moved, g2.width, g2.height),
                           old.x, old.y, g2.obstacles, 1)
              oldB == g2.badGuy[1]
              b == Resolve(badGuyUpdate(oldB, p, dt, g2.score),
                           oldB.x, oldB.y, g2.obstacles, 1)
              g3 == [g2 EXCEPT !.player = <<p>>, !.badGuy = <<b>>]
          IN IF checkCircleCollision(p, b) THEN gameOver(g3)
             ELSE EatApples(g3, Len(g3.apples))

\* update without the player-pursuer collision check.
update_noCollision(g, dt, inp, spawn) ==
    LET t1 == g.time - dt
    IN IF t1 <= 0 THEN gameOver([g EXCEPT !.time = 0])
       ELSE
       LET g1 == Emit([g EXCEPT !.time = t1], "onTimeUpdate", CeilSeconds(t1))
           at == g1.appleTimer + dt
           g2 == IF at > SpawnPeriod * TimeScale
                 THEN spawnApple([g1 EXCEPT !.appleTimer = 0], spawn)
                 ELSE [g1 EXCEPT !.appleTimer = at]
       IN IF g2.player = <<>> \/ g2.badGuy = <<>> THEN g2
          ELSE
          LET old == g2.player[1]
              moved == IF g2.settings.inputType = "mouse"
                       THEN moveTowards(old, inp.mouseX, inp.mouseY, dt)
                       ELSE move(old, inp.keys, dt)
              p == Resolve(handleScreenBounds(moved, g2.width, g2.height),
                           old.x, old.y, g2.obstacles, 1)
              oldB == g2.badGuy[1]
              b == Resolve(badGuyUpdate(oldB, p, dt, g2.score),
                           oldB.x, oldB.y, g2.obstacles, 1)
              g3 == [g2 EXCEPT !.player = <<p>>, !.badGuy = <<b>>]
          IN IF FALSE THEN gameOver(g3)
             ELSE EatApples(g3, Len(g3.apples))

\* update without the handleScreenBounds call after the movement step.
update_noBounds(g, dt, inp, spawn) ==
    LET t1 == g.time - dt
    IN IF t1 <= 0 THEN gameOver([g EXCEPT !.time = 0])
       ELSE
       LET g1 == Emit([g EXCEPT !.time = t1], "onTimeUpdate", CeilSeconds(t1))
           at == g1.appleTimer + dt
           g2 == IF at > SpawnPeriod * TimeScale
                 THEN spawnApple([g1 EXCEPT !.appleTimer = 0], spawn)
                 ELSE [g1 EXCEPT !.appleTimer = at]
       IN IF g2.player = <<>> \/ g2.badGuy = <<>> THEN g2
          ELSE
          LET old == g2.player[1]
              moved == IF g2.settings.inputType = "mouse"
                       THEN moveTowards(old, inp.mouseX, inp.mouseY, dt)
                       ELSE move(old, inp.keys, dt)
              p == Resolve(moved,
                           old.x, old.y, g2.obstacles, 1)
              oldB == g2.badGuy[1]
              b == Resolve(badGuyUpdate(oldB, p, dt, g2.score),
                           oldB.x, oldB.y, g2.obstacles, 1)
              g3 == [g2 EXCEPT !.player = <<p>>, !.badGuy = <<b>>]
          IN IF checkCircleCollision(p, b) THEN gameOver(g3)
             ELSE EatApples(g3, Len(g3.apples))

\* update adding dt to the spawn accumulator before it looks at the time.
update_lateTimeout(g, dt, inp, spawn) ==
    LET t1 == g.time - dt
    IN IF t1 <= 0 THEN gameOver([g EXCEPT !.time = 0, !.appleTimer = @ + dt])
       ELSE
       LET g1 == Emit([g EXCEPT !.time = t1], "onTimeUpdate", CeilSeconds(t1))
           at == g1.appleTimer + dt
           g2 == IF at > SpawnPeriod * TimeScale
                 THEN spawnApple([g1 EXCEPT !.appleTimer = 0], spawn)
                 ELSE [g1 EXCEPT !.appleTimer = at]
       IN IF g2.player = <<>> \/ g2.badGuy = <<>> THEN g2
          ELSE
          LET old == g2.player[1]
              moved == IF g2.settings.inputType = "mouse"
                       THEN moveTowards(old, inp.mouseX, inp.mouseY, dt)
                       ELSE move(old, inp.keys, dt)
              p == Resolve(handleScreenBounds(moved, g2.width, g2.height),
                           old.x, old.y, g2.obstacles, 1)
              oldB == g2.badGuy[1]
              b == Resolve(badGuyUpdate(oldB, p, dt, g2.score),
                           oldB.x, oldB.y, g2.obstacles, 1)
              g3 == [g2 EXCEPT !.player = <<p>>, !.badGuy = <<b>>]
          IN IF checkCircleCollision(p, b) THEN gameOver(g3)
             ELSE EatApples(g3, Len(g3.apples))

\* update collecting the apples before it checks the pursuer.
update_eatsFirst(g, dt, inp, spawn) ==
    LET t1 == g.time - dt
    IN IF t1 <= 0 THEN gameOver([g EXCEPT !.time = 0])
       ELSE
       LET g1 == Emit([g EXCEPT !.time = t1], "onTimeUpdate", CeilSeconds(t1))
           at == g1.appleTimer + dt
           g2 == IF at > SpawnPeriod * TimeScale
                 THEN spawnApple([g1 EXCEPT !.appleTimer = 0], spawn)
                 ELSE [g1 EXCEPT !.appleTimer = at]
       IN IF g2.player = <<>> \/ g2.badGuy = <<>> THEN g2
          ELSE
          LET old == g2.player[1]
              moved == IF g2.settings.inputType = "mouse"
                       THEN moveTowards(old, inp.mouseX, inp.mouseY, dt)
                       ELSE move(old, inp.keys, dt)
              p == Resolve(handleScreenBounds(moved, g2.width, g2.height),
                           old.x, old.y, g2.obstacles, 1)
              oldB == g2.badGuy[1]
              b == Resolve(badGuyUpdate(oldB, p, dt, g2.score),
                           oldB.x, oldB.y, g2.obstacles, 1)
              g3 == [g2 EXCEPT !.player = <<p>>, !.badGuy = <<b>>]
          IN IF checkCircleCollision(p, b)
             THEN gameOver(EatApples(g3, Len(g3.apples)))
             ELSE EatApples(g3, Len(g3.apples))

\* update keeping the remainder of the spawn accumulator instead of resetting it.
update_carryOver(g, dt, inp, spawn) ==
    LET t1 == g.time - dt
    IN IF t1 <= 0 THEN gameOver([g EXCEPT !.time = 0])
       ELSE
       LET g1 == Emit([g EXCEPT !.time = t1], "onTimeUpdate", CeilSeconds(t1))
           at == g1.appleTimer + dt
           g2 == IF at > SpawnPeriod * TimeScale
                 THEN spawnApple([g1 EXCEPT !.appleTimer = at - SpawnPeriod * TimeScale], spawn)
                 ELSE [g1 EXCEPT !.appleTimer = at]
       IN IF g2.player = <<>> \/ g2.badGuy = <<>> THEN g2
          ELSE
          LET old == g2.player[1]
              moved == IF g2.settings.inputType = "mouse"
                       THEN moveTowards(old, inp.mouseX, inp.mouseY, dt)
                       ELSE move(old, inp.keys, dt)
              p == Resolve(handleScreenBounds(moved, g2.width, g2.height),
                           old.x, old.y, g2.obstacles, 1)
              oldB == g2.badGuy[1]
              b == Resolve(badGuyUpdate(oldB, p, dt, g2.score),
                           oldB.x, oldB.y, g2.obstacles, 1)
              g3 == [g2 EXCEPT !.player = <<p>>, !.badGuy = <<b>>]
          IN IF checkCircleCollision(p, b) THEN gameOver(g3)
             ELSE EatApples(g3, Len(g3.apples))

\* Game.update(dt) with the input state `inp` written by the input handlers
\* and the outcome `spawn` of spawnApple's draws.
update(g, dt, inp, spawn) ==
    LET t1 == g.time - dt
    IN IF t1 <= 0 THEN gameOver([g EXCEPT !.time = 0])
       ELSE
       LET g1 == Emit([g EXCEPT !.time = t1], "onTimeUpdate", CeilSeconds(t1))
           at == g1.appleTimer + dt
           g2 == IF at > SpawnPeriod * TimeScale
                 THEN spawnApple([g1 EXCEPT !.appleTimer = 0], spawn)
                 ELSE [g1 EXCEPT !.appleTimer = at]
       IN IF g2.player = <<>> \/ g2.badGuy = <<>> THEN g2
          ELSE
          LET old == g2.player[1]
              moved == IF g2.settings.inputType = "mouse"
                       THEN moveTowards(old, inp.mouseX, inp.mouseY, dt)
                       ELSE move(old, inp.keys, dt)
              p == Resolve(handleScreenBounds(moved, g2.width, g2.height),
                           old.x, old.y, g2.obstacles, 1)
              oldB == g2.badGuy[1]
              b == Resolve(badGuyUpdate(oldB, p, dt, g2.score),
                           oldB.x, oldB.y, g2.obstacles, 1)
              g3 == [g2 EXCEPT !.player = <<p>>, !.badGuy = <<b>>]
          IN IF checkCircleCollision(p, b) THEN gameOver(g3)
             ELSE EatApples(g3, Len(g3.apples))

\* loop without the early return of an ended session.
loop_noGuard(g, inp, spawn) ==
    IF FALSE THEN g
    ELSE LET dt == g.sinceLastTime
             g1 == [g EXCEPT !.sinceLastTime = 0]
             g2 == IF ~g1.isPaused
                   THEN Emit(update(g1, dt, inp, spawn), "draw", 0)
                   ELSE g1
         IN [g2 EXCEPT !.pendingFrames = @ + 1]

\* loop that leaves lastTime alone while paused.
loop_pausedClock(g, inp, spawn) ==
    IF ~g.isRunning THEN g
    ELSE LET dt == g.sinceLastTime
             g1 == IF g.isPaused THEN g ELSE [g EXCEPT !.sinceLastTime = 0]
             g2 == IF ~g1.isPaused
                   THEN Emit(update(g1, dt, inp, spawn), "draw", 0)
                   ELSE g1
         IN [g2 EXCEPT !.pendingFrames = @ + 1]

\* loop requesting the next frame before it looks at isRunning.
loop_reschedules(g, inp, spawn) ==
    IF ~g.isRunning THEN [g EXCEPT !.pendingFrames = @ + 1]
    ELSE LET dt == g.sinceLastTime
             g1 == [g EXCEPT !.sinceLastTime = 0]
             g2 == IF ~g1.isPaused
                   THEN Emit(update(g1, dt, inp, spawn), "draw", 0)
                   ELSE g1
         IN [g2 EXCEPT !.pendingFrames = @ + 1]

\* Game.loop(timestamp), timestamp - lastTime = sinceLastTime.
loop(g, inp, spawn) ==
    IF ~g.isRunning THEN g
    ELSE LET dt == g.sinceLastTime
             g1 == [g EXCEPT !.sinceLastTime = 0]
             g2 == IF ~g1.isPaused
                   THEN Emit(update(g1, dt, inp, spawn), "draw", 0)
                   ELSE g1
         IN [g2 EXCEPT !.pendingFrames = @ + 1]

\* new AudioContext() when audio is on and none exists yet.
EnsureAudio(g) ==
    IF g.settings.audio /\ ~g.audioCtx THEN [g EXCEPT !.audioCtx = TRUE] ELSE g

\* No key held, the pointer where the field initialisers put it.
IdleInput == [keys |-> NoKeys, mouseX |-> 0, mouseY |-> 0]

\* start without this.score = 0.
start_keepScore(g, newSettings, side, ry, obs) ==
    LET g1 == EnsureAudio([g EXCEPT !.settings = newSettings])
        bx == IF side * 2 > RandDen THEN g1.width - BadGuyMargin ELSE BadGuyMargin
        g2 == [g1 EXCEPT
                 !.player = <<NewPlayer(g1.width \div 2, g1.height \div 2)>>,
                 !.badGuy = <<NewBadGuy(bx, (ry * g1.height) \div RandDen)>>,
                 !.apples = <<>>,
                 !.obstacles = obs,
                 !.time = InitialTime * TimeScale,
                 !.isRunning = TRUE,
                 !.isPaused = FALSE,
                 !.sinceLastTime = 0,
                 !.appleTimer = 0,
                 !.gameOverCalls = 0]
    IN loop(updateUI(g2), IdleInput, <<>>)

\* start without clearing the obstacle list first.
start_keepsObstacles(g, newSettings, side, ry, obs) ==
    LET g1 == EnsureAudio([g EXCEPT !.settings = newSettings])
        bx == IF side * 2 > RandDen THEN g1.width - BadGuyMargin ELSE BadGuyMargin
        g2 == [g1 EXCEPT
                 !.player = <<NewPlayer(g1.width \div 2, g1.height \div 2)>>,
                 !.badGuy = <<NewBadGuy(bx, (ry * g1.height) \div RandDen)>>,
                 !.apples = <<>>,
                 !.obstacles = g1.obstacles \o obs,
                 !.score = 0,
                 !.time = InitialTime * TimeScale,
                 !.isRunning = TRUE,
                 !.isPaused = FALSE,
                 !.sinceLastTime = 0,
                 !.appleTimer = 0,
                 !.gameOverCalls = 0]
    IN loop(updateUI(g2), IdleInput, <<>>)

\* Game.start(charType, newSettings) with the draws of Math.random():
\* side and ry place the pursuer, obs is generateObstacles' result.  The
\* frame it runs itself has dt = 0 and no spawn: no input moves the player
\* in it, so the model reads the idle input there.
start(g, newSettings, side, ry, obs) ==
    LET g1 == EnsureAudio([g EXCEPT !.settings = newSettings])
        bx == IF side * 2 > RandDen THEN g1.width - BadGuyMargin ELSE BadGuyMargin
        g2 == [g1 EXCEPT
                 !.player = <<NewPlayer(g1.width \div 2, g1.height \div 2)>>,
                 !.badGuy = <<NewBadGuy(bx, (ry * g1.height) \div RandDen)>>,
                 !.apples = <<>>,
                 !.obstacles = obs,
                 !.score = 0,
                 !.time = InitialTime * TimeScale,
                 !.isRunning = TRUE,
                 !.isPaused = FALSE,
                 !.sinceLastTime = 0,
                 !.appleTimer = 0,
                 !.gameOverCalls = 0]
    IN loop(updateUI(g2), IdleInput, <<>>)

\* togglePause without the early return.
togglePause_noGuard(g) ==
    IF FALSE THEN g
    ELSE LET g1 == [g EXCEPT !.isPaused = ~@]
         IN Emit(g1, "onPause", IF g1.isPaused THEN 1 ELSE 0)

\* togglePause that sets isPaused instead of negating it.
togglePause_setsPaused(g) ==
    IF ~g.isRunning THEN g
    ELSE LET g1 == [g EXCEPT !.isPaused = TRUE]
         IN Emit(g1, "onPause", IF g1.isPaused THEN 1 ELSE 0)

\* Game.togglePause
togglePause(g) ==
    IF ~g.isRunning THEN g
    ELSE LET g1 == [g EXCEPT !.isPaused = ~@]
         IN Emit(g1, "onPause", IF g1.isPaused THEN 1 ELSE 0)

\* { ...settings, ...newSettings }
Merge(old, new) ==
    [f \in DOMAIN old |-> IF f \in DOMAIN new THEN new[f] ELSE old[f]]

\* updateSettings that drops the obstacles when given a difficulty.
updateSettings_regenerates(g, newSettings) ==
    EnsureAudio([g EXCEPT !.settings = Merge(@, newSettings),
                          !.obstacles = IF "difficulty" \in DOMAIN newSettings
                                        THEN <<>> ELSE @])

\* Game.updateSettings
updateSettings(g, newSettings) ==
    EnsureAudio([g EXCEPT !.settings = Merge(@, newSettings)])

\* quitGame leaving the pause flag as it is.
quitGame_keepsPause(g) == [g EXCEPT !.isRunning = FALSE]

\* UIManager.quitGame and the showStartScreen it calls, as far as they write
\* Game fields.
quitGame(g) == [g EXCEPT !.isRunning = FALSE, !.isPaused = FALSE]

\* The callbacks of one rendering frame, run one after the other with the
\* same timestamp.
RECURSIVE RunCallbacks(_, _, _, _)
RunCallbacks(g, k, inp, spawn) ==
    IF k = 0 THEN g ELSE RunCallbacks(loop(g, inp, spawn), k - 1, inp, spawn)

\* ------------------------------------------------------------ inputs
StartSettings == {[audio |-> TRUE, difficulty |-> 2, inputType |-> "keyboard"]}

PartialSettings == {[difficulty |-> 0, inputType |-> "mouse"]}

\* What the key and pointer handlers have written when a frame reads it.
Inputs ==
    {IdleInput,
     [keys |-> [NoKeys EXCEPT !.right = TRUE], mouseX |-> 425, mouseY |-> 25]}

\* A play area large enough for several obstacles around the centre, a
\* narrow tall one (the pursuer starts 100 px from the left edge, next to
\* the centre column), and the difficulties started with on them.
BigSizes == {<<1600, 1200>>, <<270, 1300>>}
MaxDifficulty == 2
AnySettings ==
    {[audio |-> FALSE, difficulty |-> n, inputType |-> "keyboard"] :
       n \in {0, MaxDifficulty}}

\* generateObstacles' results for every play-area size and difficulty used:
\* they depend on nothing else, so they are computed once.
ObstacleOutcomes ==
    [sz \in Sizes \cup BigSizes,
     d \in {s.difficulty : s \in StartSettings \cup AnySettings} |->
        generateObstacles(<<>>, sz[1], sz[2], 0, d)]

\* ------------------------------------------------------------ state machine
\* The step leaves the state of the record gx and records op.
Commit(gx, op) ==
    \E g \in {gx} :
    /\ width' = g.width
    /\ height' = g.height
    /\ player' = g.player
    /\ badGuy' = g.badGuy
    /\ apples' = g.apples
    /\ obstacles' = g.obstacles
    /\ score' = g.score
    /\ time' = g.time
    /\ highScore' = g.highScore
    /\ isRunning' = g.isRunning
    /\ isPaused' = g.isPaused
    /\ sinceLastTime' = g.sinceLastTime
    /\ settings' = g.settings
    /\ audioCtx' = g.audioCtx
    /\ appleTimer' = g.appleTimer
    /\ backgroundColor' = g.backgroundColor
    /\ storedHighScore' = g.storedHighScore
    /\ pendingFrames' = g.pendingFrames
    /\ out' = g.out
    /\ gameOverCalls' = g.gameOverCalls
    /\ lastOp' = op

\* new Game(canvas): the field initialisers and the constructor.
NewGame(w, h, stored) ==
    [width |-> w, height |-> h, player |-> <<>>, badGuy |-> <<>>,
     apples |-> <<>>, obstacles |-> <<>>, score |-> 0,
     time |-> InitialTime * TimeScale, highScore |-> stored,
     isRunning |-> FALSE, isPaused |-> FALSE, sinceLastTime |-> 0,
     settings |-> [audio |-> TRUE, difficulty |-> 10, inputType |-> "keyboard"],
     audioCtx |-> FALSE, appleTimer |-> 0, backgroundColor |-> <<>>,
     storedHighScore |-> stored, pendingFrames |-> 0, out |-> <<>>,
     gameOverCalls |-> 0]

\* The state is that of the record g.
Holds(g) ==
    /\ width = g.width
    /\ height = g.height
    /\ player = g.player
    /\ badGuy = g.badGuy
    /\ apples = g.apples
    /\ obstacles = g.obstacles
    /\ score = g.score
    /\ time = g.time
    /\ highScore = g.highScore
    /\ isRunning = g.isRunning
    /\ isPaused = g.isPaused
    /\ sinceLastTime = g.sinceLastTime
    /\ settings = g.settings
    /\ audioCtx = g.audioCtx
    /\ appleTimer = g.appleTimer
    /\ backgroundColor = g.backgroundColor
    /\ storedHighScore = g.storedHighScore
    /\ pendingFrames = g.pendingFrames
    /\ out = g.out
    /\ gameOverCalls = g.gameOverCalls

Init ==
    /\ \E sz \in Sizes, stored \in StoredScores :
          Holds(NewGame(sz[1], sz[2], stored))
    /\ lastOp = [name |-> "new", dt |-> 0]
    /\ frames = 0
    /\ sessions = 0

Start ==
    /\ sessions < MaxSessions
    /\ \E s \in StartSettings :
         \E obs \in ObstacleOutcomes[<<width, height>>, s.difficulty] :
            \E bd \in BadGuyDraws :
               Commit(start(G, s, bd[1], bd[2], obs),
                      [name |-> "start", dt |-> 0])
    /\ sessions' = sessions + 1
    /\ frames' = frames

\* One rendering frame, d after the previous one (or after start).
Frame ==
    /\ pendingFrames > 0
    /\ frames < MaxFrames
    /\ \E d \in Dts, inp \in Inputs :
         LET g0 == [G EXCEPT !.sinceLastTime = @ + d, !.pendingFrames = 0]
             fires == /\ isRunning /\ ~isPaused
                      /\ time - g0.sinceLastTime > 0
                      /\ appleTimer + g0.sinceLastTime > SpawnPeriod * TimeScale
         IN \E spawn \in (IF fires THEN SpawnLoop(obstacles, width, height)
                          ELSE {<<>>}) :
               Commit(RunCallbacks(g0, pendingFrames, inp, spawn),
                      [name |-> "frame", dt |-> g0.sinceLastTime])
    /\ frames' = frames + 1
    /\ sessions' = sessions

TogglePause ==
    /\ Commit(togglePause(G), [name |-> "togglePause", dt |-> 0])
    /\ UNCHANGED <<frames, sessions>>

UpdateSettings ==
    /\ \E ns \in PartialSettings :
         Commit(updateSettings(G, ns), [name |-> "updateSettings", dt |-> 0])
    /\ UNCHANGED <<frames, sessions>>

\* The Quit button of the pause screen, which is shown while paused.
Quit ==
    /\ isRunning /\ isPaused
    /\ Commit(quitGame(G), [name |-> "quitGame", dt |-> 0])
    /\ UNCHANGED <<frames, sessions>>

Next == Start \/ Frame \/ TogglePause \/ UpdateSettings \/ Quit

Spec == Init /\ [][Next]_vars

\* ------------------------------------------------------------ unit level
\* eatApple and BadGuy.update called directly on a Game whose public fields
\* were assigned first, the way Game.test.ts drives them.
AppleTypes == {"standard", "golden", "green"}
UnitScores == {0, 9, 24, 59}
UnitTimes == {100, 600}
UnitDts == {0, 1}

\* A constructed Game, started or not, then apples, score and time assigned.
InitUnit ==
    /\ \E sz \in Sizes, started \in BOOLEAN, s \in StartSettings,
          bd \in BadGuyDraws, ty \in AppleTypes, sc \in UnitScores,
          t \in UnitTimes :
          LET g0 == NewGame(sz[1], sz[2], 0)
              g1 == IF started THEN start(g0, s, bd[1], bd[2], <<>>) ELSE g0
          IN Holds([g1 EXCEPT !.apples = <<NewApple(0, 0, ty)>>,
                              !.score = sc, !.time = t, !.out = <<>>])
    /\ lastOp = [name |-> "new", dt |-> 0]
    /\ frames = 0
    /\ sessions = 0

EatApple ==
    /\ \E i \in 1..Len(apples) :
         Commit(eatApple(G, i), [name |-> "eatApple", dt |-> 0])
    /\ UNCHANGED <<frames, sessions>>

BadGuyUpdate ==
    /\ badGuy # <<>>
    /\ frames < MaxFrames
    /\ \E d \in UnitDts :
         Commit([G EXCEPT !.badGuy = <<badGuyUpdate(badGuy[1], player[1], d, score)>>],
                [name |-> "badGuyUpdate", dt |-> d])
    /\ frames' = frames + 1
    /\ sessions' = sessions

NextUnit == EatApple \/ BadGuyUpdate \/ Start

SpecUnit == InitUnit /\ [][NextUnit]_vars

\* ------------------------------------------------------------ properties
\* The positions in the log o of the calls of cb, and whether cb(arg) is one.
CallsIn(o, cb) == {i \in 1..Len(o) : o[i].cb = cb}
EmittedIn(o, cb, arg) == \E i \in CallsIn(o, cb) : o[i].arg = arg

\* The player and the pursuer exist and their circles overlap.
Overlap ==
    /\ player # <<>>
    /\ badGuy # <<>>
    /\ checkCircleCollision(player[1], badGuy[1])

\* C1: when start returns, score is 0, time is 60 s, appleTimer is 0 and
\* there are no apples, whatever the state start was called in.
C1_StartResets ==
    lastOp.name = "start" =>
        /\ score = 0
        /\ time = InitialTime * TimeScale
        /\ appleTimer = 0
        /\ apples = <<>>

\* C1 witness: the second start, after a session that ended with a positive
\* score (only gameOver raises highScore, and the score stays until start).
C1_Witness ==
    /\ lastOp.name = "start"
    /\ sessions = 2
    /\ highScore > 0
    /\ score = 0

\* C2: when start returns the session is running and not paused.
C2_StartsRunning == lastOp.name = "start" => isRunning /\ ~isPaused

\* C3: a frame whose update gets dt >= the remaining time leaves time = 0,
\* isRunning = FALSE and has called onGameOver with the score.
C3_Timeout ==
    [][(/\ lastOp'.name = "frame"
        /\ isRunning /\ ~isPaused
        /\ time - lastOp'.dt <= 0)
       => /\ time' = 0
          /\ ~isRunning'
          /\ score' = score
          /\ EmittedIn(out', "onGameOver", score)]_vars

\* C3 witness: a 60 s frame has ended a session with time 0.
C3_Witness ==
    /\ lastOp.name = "frame"
    /\ lastOp.dt = 600
    /\ time = 0
    /\ ~isRunning
    /\ EmittedIn(out, "onGameOver", score)

\* C4: the remaining time is never negative.
C4_TimeNonNegative == time >= 0

\* C4 witness: a 0.1 s update (appleTimer = 1) left 59.9 s and the next
\* frame took 60 s: time - dt was -0.1 and time is 0.
C4_Witness ==
    /\ lastOp.name = "frame"
    /\ lastOp.dt = 600
    /\ frames = 2
    /\ appleTimer = 1
    /\ score = 0
    /\ time = 0

\* C5: when an update has moved the player and the pursuer into circular
\* overlap, the session is ended by that update, which calls onGameOver
\* with the score; so no running session has the two overlapping.
C5_CollisionEnds ==
    Overlap =>
        /\ ~isRunning
        /\ (CallsIn(out, "draw") # {} /\ time > 0)
             => EmittedIn(out, "onGameOver", score)

\* C5 witness: a frame moved the pursuer onto the player with time left.
C5_Witness ==
    /\ lastOp.name = "frame"
    /\ Overlap
    /\ time > 0
    /\ CallsIn(out, "draw") # {}
    /\ EmittedIn(out, "onGameOver", score)

\* C6: a session ends at most once: gameOver runs at most once between two
\* starts, a step calls onGameOver at most once and with the score, the
\* session in which gameOver has run is no longer running, and a frame of an
\* ended session calls nothing.
C6_EndsOnce ==
    /\ gameOverCalls <= 1
    /\ Cardinality(CallsIn(out, "onGameOver")) <= 1
    /\ \A i \in CallsIn(out, "onGameOver") : out[i].arg = score /\ ~isRunning
    /\ isRunning => gameOverCalls = 0
    /\ (lastOp.name = "frame" /\ CallsIn(out, "draw") = {} /\ ~isRunning)
         => out = <<>>

\* C6 witness: a frame after the one that ended the session; it called
\* nothing.
C6_Witness ==
    /\ lastOp.name = "frame"
    /\ frames = 2
    /\ ~isRunning
    /\ gameOverCalls = 1
    /\ out = <<>>

\* C7: a frame in which apples are eaten adds 1 to the score and 1 s to the
\* time per eaten apple (so a 0.1 s frame with one apple eaten leaves score
\* + 1 and time + 0.9 s), calls onScoreUpdate with the new score, and when
\* one apple is eaten removes exactly that standard apple, the one the
\* player overlaps, from the apples (with the frame's spawn, if any).
C7_StandardApple ==
    [][LET eaten == CallsIn(out', "splice")
           n == Cardinality(eaten)
       IN (lastOp'.name = "frame" /\ n > 0) =>
            /\ score' = score + n
            /\ time' = time - lastOp'.dt + n * TimeScale
            /\ EmittedIn(out', "onScoreUpdate", score')
            /\ n = 1 =>
                 \E sp \in SpawnLoop(obstacles, width, height) \cup {<<>>} :
                    \E i \in eaten :
                       LET before == apples \o sp
                           index == out'[i].arg
                       IN /\ index \in 1..Len(before)
                          /\ before[index].type = "standard"
                          /\ checkCircleCollision(player'[1], before[index])
                          /\ apples' = RemoveAt(before, index)]_vars

\* C7 witness: the first frame, 2.1 s, spawned an apple, and the second,
\* 0.1 s, ate it: score 1, time 60 - 2.1 - 0.1 + 1.
C7_Witness ==
    /\ lastOp.name = "frame"
    /\ lastOp.dt = 1
    /\ Cardinality(CallsIn(out, "splice")) = 1
    /\ EmittedIn(out, "onScoreUpdate", 1)
    /\ score = 1
    /\ time = 588

\* Seconds a golden apple adds according to Game.test.ts.
GoldenTime == 15

\* C8: eating a golden apple adds 15 s to the time and leaves the score.
C8_GoldenApple ==
    [][(lastOp'.name = "eatApple" /\ apples[1].type = "golden") =>
          /\ time' = time + GoldenTime * TimeScale
          /\ score' = score]_vars

\* C9: eating a green apple halves the pursuer's speedMultiplier, adds 1 to
\* the score and nothing to the time; BadGuy.update sets speed to
\* (80 + 5 * score) * speedMultiplier.
C9_GreenApple ==
    [][/\ (lastOp'.name = "eatApple" /\ apples[1].type = "green") =>
            /\ score' = score + 1
            /\ time' = time
            /\ badGuy # <<>> =>
                 /\ badGuy' # <<>>
                 /\ 2 * badGuy'[1].speedMultiplier.n * badGuy[1].speedMultiplier.d
                      = badGuy[1].speedMultiplier.n * badGuy'[1].speedMultiplier.d
       /\ lastOp'.name = "badGuyUpdate" =>
            badGuy'[1].speed.n * badGuy[1].speedMultiplier.d
              = (BaseSpeed + SpeedPerPoint * score) * badGuy[1].speedMultiplier.n
                  * badGuy'[1].speed.d]_vars

\* C10: except in start, the score changes by exactly the number of apples
\* eaten in the step: a frame that eats none, togglePause, updateSettings
\* and a frame that runs gameOver leave it, and it never decreases.
C10_ScoreOnlyByApples ==
    [][lastOp'.name # "start" =>
          score' = score + Cardinality(CallsIn(out', "splice"))]_vars

\* C10 witness: a frame that ate nothing and ran gameOver in a session whose
\* score was 1: the score is still 1.
C10_Witness ==
    /\ lastOp.name = "frame"
    /\ CallsIn(out, "splice") = {}
    /\ EmittedIn(out, "onGameOver", 1)
    /\ score = 1


\* C11: highScore never decreases; localStorage is written only by a step
\* that ran gameOver, and exactly when the ending score is greater than the
\* high score before it: then highScore and the stored value are that score.
C11_HighScore ==
    [][LET ended == CallsIn(out', "onGameOver") # {}
           wrote == CallsIn(out', "setItem") # {}
       IN /\ highScore' >= highScore
          /\ wrote <=> (ended /\ score' > highScore)
          /\ wrote => /\ highScore' = score'
                      /\ storedHighScore' = score'
                      /\ \A i \in CallsIn(out', "setItem") : out'[i].arg = score'
          /\ ~wrote => /\ highScore' = highScore
                       /\ storedHighScore' = storedHighScore]_vars

\* C11 witness: a session that ended at once with score 0 after one that set
\* the high score 1: nothing was written and the high score is still 1.
C11_Witness ==
    /\ lastOp.name = "start"
    /\ EmittedIn(out, "onGameOver", 0)
    /\ CallsIn(out, "setItem") = {}
    /\ highScore = 1
    /\ storedHighScore = 1


\* C12: togglePause called while the session is not running (never started,
\* ended or quit) leaves isPaused as it was and does not call onPause.
C12_PauseNeedsRunning ==
    [][(lastOp'.name = "togglePause" /\ ~isRunning) =>
          /\ isPaused' = isPaused
          /\ ~isRunning'
          /\ CallsIn(out', "onPause") = {}]_vars

\* C12 witness: togglePause after a session was quit (not running, started
\* once, gameOver never ran).
C12_Witness ==
    /\ lastOp.name = "togglePause"
    /\ ~isRunning
    /\ sessions > 0
    /\ gameOverCalls = 0
    /\ ~isPaused
    /\ out = <<>>


\* C13: togglePause in a running session negates isPaused, calls onPause
\* once with the new value and changes nothing else; the second of two
\* calls in a row calls onPause with the negation of what the first passed
\* and puts isPaused back to what it was before the first.
C13_PauseTwice ==
    [][(lastOp'.name = "togglePause" /\ isRunning) =>
          /\ isPaused' = ~isPaused
          /\ out' = <<[cb |-> "onPause", arg |-> IF isPaused THEN 0 ELSE 1]>>
          /\ UNCHANGED <<width, height, player, badGuy, apples, obstacles,
                         score, time, highScore, isRunning, sinceLastTime,
                         settings, audioCtx, appleTimer, backgroundColor,
                         storedHighScore, pendingFrames, gameOverCalls>>
          /\ (lastOp.name = "togglePause" /\ Len(out) = 1) =>
               /\ out'[1].arg = 1 - out[1].arg
               /\ isPaused' = (out[1].arg = 0)]_vars

\* C13 witness: only togglePause was called since start (no frame, the
\* settings are those start was given) and the last call resumed.
C13_Witness ==
    /\ lastOp.name = "togglePause"
    /\ isRunning
    /\ ~isPaused
    /\ frames = 0
    /\ settings \in StartSettings
    /\ out = <<[cb |-> "onPause", arg |-> 0]>>


\* C14: a frame of a paused running session schedules the next callback
\* but runs no update and no draw and changes no game state; the dt of
\* every update is one frame interval (lastTime advances in paused frames
\* too), so the first update after resume subtracts only the interval since
\* the last frame.
C14_PausedFrames ==
    [][(lastOp'.name = "frame" /\ isRunning) =>
          /\ lastOp'.dt \in Dts
          /\ isPaused =>
               /\ out' = <<>>
               /\ pendingFrames' = pendingFrames
               /\ sinceLastTime' = 0
               /\ UNCHANGED <<player, badGuy, apples, obstacles, score, time,
                              appleTimer, isRunning, isPaused, highScore,
                              backgroundColor, gameOverCalls>>
          /\ (~isPaused /\ time - lastOp'.dt > 0) =>
               time' = time - lastOp'.dt
                         + Cardinality(CallsIn(out', "splice")) * TimeScale]_vars

\* C14 witness: the only session had two frames, the first paused, then
\* resume and a 0.1 s frame: one update ran and 59.9 s are left.
C14_Witness ==
    /\ lastOp.name = "frame"
    /\ lastOp.dt = 1
    /\ frames = 2
    /\ sessions = 1
    /\ isRunning
    /\ ~isPaused
    /\ appleTimer = 1
    /\ time = 599


\* The player positions an update with interval dt can produce from player
\* p in input mode `mode`, over the inputs of the model.
MovedPlayers(p, mode, dt) ==
    {Resolve(handleScreenBounds(IF mode = "mouse"
                                THEN moveTowards(p, inp.mouseX, inp.mouseY, dt)
                                ELSE move(p, inp.keys, dt),
                                width, height),
             p.x, p.y, obstacles, 1) : inp \in Inputs}

\* C15: updateSettings replaces the given fields of the settings, keeps the
\* others and leaves score, time, the flags, the apples, the entities and
\* the obstacles (also when difficulty is given); the next update moves the
\* player by the input mode the settings name then.
C15_UpdateSettings ==
    [][/\ lastOp'.name = "updateSettings" =>
            /\ \E ns \in PartialSettings :
                  /\ DOMAIN settings' = DOMAIN settings
                  /\ \A f \in DOMAIN settings :
                        settings'[f] = IF f \in DOMAIN ns THEN ns[f]
                                       ELSE settings[f]
            /\ out' = <<>>
            /\ UNCHANGED <<score, time, isRunning, isPaused, apples, obstacles,
                           player, badGuy, appleTimer, highScore,
                           sinceLastTime, pendingFrames, gameOverCalls>>
       /\ (/\ lastOp'.name = "frame"
           /\ isRunning /\ ~isPaused
           /\ time - lastOp'.dt > 0) =>
            player'[1] \in MovedPlayers(player[1], settings.inputType,
                                        lastOp'.dt)]_vars

\* C15 witness: in a session started with difficulty 2 and the keyboard,
\* the settings now say difficulty 0 and mouse, the obstacle is still
\* there and a frame moved the player straight up towards the pointer.
C15_Witness ==
    /\ lastOp.name = "frame"
    /\ settings = [audio |-> TRUE, difficulty |-> 0, inputType |-> "mouse"]
    /\ obstacles # <<>>
    /\ player[1].x = 400
    /\ player[1].y < 300


\* ---------------------------------------------------------------------
\* Obstacle placement: sessions on the large and on the narrow play area,
\* started with no obstacles or with difficulty MaxDifficulty.
\* ---------------------------------------------------------------------
InitObstacles ==
    /\ \E sz \in BigSizes, stored \in StoredScores :
          Holds(NewGame(sz[1], sz[2], stored))
    /\ lastOp = [name |-> "new", dt |-> 0]
    /\ frames = 0
    /\ sessions = 0

StartAny ==
    /\ sessions < MaxSessions
    /\ \E s \in AnySettings :
         \E obs \in ObstacleOutcomes[<<width, height>>, s.difficulty] :
            \E bd \in BadGuyDraws :
               Commit(start(G, s, bd[1], bd[2], obs),
                      [name |-> "start", dt |-> 0])
    /\ sessions' = sessions + 1
    /\ frames' = frames

NextObstacles == StartAny \/ TogglePause

SpecObstacles == InitObstacles /\ [][NextObstacles]_vars

\* The positions one placement attempt can draw on a w x h play area.
ObstacleCandidates(w, h) ==
    {NewObstacle(DrawPos(d[1], w, ObstacleSize), DrawPos(d[2], h, ObstacleSize)) :
       d \in ObstacleDraws}

\* C16: right after start with difficulty N the obstacle list holds at
\* most N obstacles, every one of them placed by this start (a drawn
\* position clear of the player's start position and of the other
\* obstacles), so nothing of an earlier session is left; a placement whose
\* attempts were all rejected just leaves the list shorter.
C16_FreshObstacles ==
    lastOp.name = "start" =>
       /\ Len(obstacles) <= settings.difficulty
       /\ \A i \in 1..Len(obstacles) :
             /\ obstacles[i] \in ObstacleCandidates(width, height)
             /\ ~checkCircleCollision(obstacles[i],
                                      NewPlayer(width \div 2, height \div 2))
             /\ \A j \in 1..Len(obstacles) :
                   j # i => ~checkCircleCollision(obstacles[i], obstacles[j])

\* A second session started with difficulty MaxDifficulty that placed one
\* obstacle and dropped another.
C16_Witness ==
    /\ lastOp.name = "start"
    /\ sessions = 2
    /\ settings.difficulty = MaxDifficulty
    /\ Len(obstacles) = 1
    /\ isRunning


\* ---------------------------------------------------------------------
\* Blocking by obstacles: a started game whose obstacles and player
\* position are assigned, as the test "should prevent dragging player
\* into an obstacle" does, then update called directly.
\* ---------------------------------------------------------------------
BlockSize == <<800, 600>>
BlockLayouts ==
    {<<NewObstacle(300, 300)>>,
     <<NewObstacle(45, 155), NewObstacle(160, 100)>>}
BlockPlayers == {<<250, 300>>, <<100, 100>>}
BlockModes == {"keyboard", "mouse", "touch"}
\* What a test assigns before it calls update: keys, pointer position and
\* the drag fields isDragging, dragOffsetX and dragOffsetY.
DragOffset == -25
BlockInputs ==
    {[keys |-> NoKeys, mouseX |-> 0, mouseY |-> 0,
      isDragging |-> FALSE, dragOffsetX |-> 0, dragOffsetY |-> 0],
     [keys |-> [NoKeys EXCEPT !.right = TRUE, !.down = TRUE],
      mouseX |-> 300, mouseY |-> 300,
      isDragging |-> FALSE, dragOffsetX |-> 0, dragOffsetY |-> 0],
     [keys |-> NoKeys, mouseX |-> 600, mouseY |-> 500,
      isDragging |-> TRUE, dragOffsetX |-> DragOffset, dragOffsetY |-> DragOffset]}
BlockDts == {1, 2, 50}
\* The apples a test assigns: none, or two on the player at (250, 300)
\* with one far from it between them.
BlockApples ==
    {<<>>,
     <<NewApple(250, 300, "standard"), NewApple(600, 100, "standard"),
       NewApple(260, 310, "standard")>>}

\* The player's box overlaps none of the obstacles.
Clear(p, obs) == \A i \in 1..Len(obs) : ~checkCollision(p, obs[i])

InitBlock ==
    /\ \E lay \in BlockLayouts, pos \in BlockPlayers, mode \in BlockModes,
          bd \in BadGuyDraws, aps \in BlockApples :
          LET s == [audio |-> FALSE, difficulty |-> 0, inputType |-> mode]
              g1 == start(NewGame(BlockSize[1], BlockSize[2], 0),
                          s, bd[1], bd[2], <<>>)
              p == [g1.player[1] EXCEPT !.x = pos[1], !.y = pos[2]]
          IN /\ Clear(p, lay)
             /\ Holds([g1 EXCEPT !.obstacles = lay, !.player = <<p>>,
                                 !.apples = aps, !.out = <<>>])
    /\ lastOp = [name |-> "new", dt |-> 0]
    /\ frames = 0
    /\ sessions = 1

UpdateStep ==
    /\ isRunning
    /\ frames < MaxFrames
    /\ \E d \in BlockDts, inp \in BlockInputs :
         LET fires == /\ time - d > 0
                      /\ appleTimer + d > SpawnPeriod * TimeScale
         IN \E spawn \in (IF fires THEN SpawnLoop(obstacles, width, height)
                          ELSE {<<>>}) :
               Commit(update([G EXCEPT !.out = <<>>], d, inp, spawn),
                      [name |-> "update", dt |-> d, inp |-> inp])
    /\ frames' = frames + 1
    /\ sessions' = sessions

NextBlock == UpdateStep

SpecBlock == InitBlock /\ [][NextBlock]_vars

\* The player after movement and clamping, before obstacles are looked at.
MovedPlayer(p, mode, inp, dt) ==
    handleScreenBounds(IF mode = "mouse"
                       THEN moveTowards(p, inp.mouseX, inp.mouseY, dt)
                       ELSE move(p, inp.keys, dt),
                       width, height)

\* C17: in an update, when the player after movement and clamping
\* overlaps an obstacle, the player ends the update at the position it had
\* before the update, on both axes.
C17_FullRevert ==
    [][(lastOp'.name = "update" /\ time - lastOp'.dt > 0) =>
         \A inp \in BlockInputs :
            LET m == MovedPlayer(player[1], settings.inputType, inp, lastOp'.dt)
            IN (/\ ~Clear(m, obstacles)
                /\ player'[1] = Resolve(m, player[1].x, player[1].y, obstacles, 1))
               => /\ player'[1].x = player[1].x
                  /\ player'[1].y = player[1].y]_vars

\* C18: an update that starts with the player's box clear of every
\* obstacle ends with it clear of every obstacle.
C18_ObstaclesBlock ==
    [][(lastOp'.name = "update" /\ Clear(player[1], obstacles))
          => Clear(player'[1], obstacles')]_vars


\* C19: after an apple is eaten the background is the level colour with
\* index floor(score / 10) mod 6; at score 60 the index is 0 again.
C19_LevelColor ==
    lastOp.name = "eatApple" =>
       /\ backgroundColor = <<(score \div 10) % NumLevelColors>>
       /\ score = 10 * NumLevelColors => backgroundColor = <<0>>
       /\ score = 10 => backgroundColor = <<1>>

\* The apple that takes the score from 59 to 60 has been eaten.
C19_Witness ==
    /\ lastOp.name = "eatApple"
    /\ score = 60
    /\ apples = <<>>
    /\ backgroundColor = <<0>>


\* C20: a start called when a level colour has been set leaves the
\* background at the first level colour.
C20_StartResetsColor ==
    [][(lastOp'.name = "start" /\ backgroundColor # <<>>)
          => backgroundColor' = <<0>>]_vars


\* C21: a frame adds at most one apple (spawnApple runs at most once in
\* it), no apple of the list overlaps an obstacle, and a spawnApple call
\* that found no free position adds nothing and does not end the session:
\* the session ends in that frame only if the pursuer caught the player.
C21_SpawnApple ==
    [][lastOp'.name = "frame" =>
         LET eaten == Cardinality(CallsIn(out', "splice"))
             fired == /\ isRunning /\ ~isPaused
                      /\ time - lastOp'.dt > 0
                      /\ appleTimer + lastOp'.dt > SpawnPeriod * TimeScale
         IN /\ Len(apples') + eaten <= Len(apples) + 1
            /\ ~fired => Len(apples') + eaten = Len(apples)
            /\ \A i \in 1..Len(apples') : \A j \in 1..Len(obstacles') :
                  ~checkCollision(obstacles'[j], apples'[i])
            /\ (fired /\ Len(apples') + eaten = Len(apples))
                  => (isRunning' \/ checkCircleCollision(player'[1], badGuy'[1]))]_vars

\* A frame whose spawnApple added an apple next to an obstacle, and the
\* apple is still there.
C21_Witness ==
    /\ lastOp.name = "frame"
    /\ lastOp.dt = 21
    /\ appleTimer = 0
    /\ obstacles # <<>>
    /\ Len(apples) = 1
    /\ CallsIn(out, "splice") = {}
    /\ isRunning


\* The box the test "should spawn Bad Guy in valid location" checks around
\* the pursuer's position.
PlacementBox(b) == [x |-> b.x - 20, y |-> b.y - 20, width |-> 40, height |-> 40]

\* C22: when start returns, no obstacle of the generated set overlaps the
\* pursuer's placement box.
C22_PursuerClear ==
    lastOp.name = "start" =>
       \A j \in 1..Len(obstacles) :
          ~checkCollision(obstacles[j], PlacementBox(badGuy[1]))


\* C23: the player is inside the play area in every state: start puts
\* it at the centre and every update clamps it after the movement step,
\* in keyboard mode and in mouse mode, whether or not the player moved.
C23_PlayerInside ==
    player # <<>> =>
       /\ 0 <= player[1].x
       /\ player[1].x <= width - PlayerSize
       /\ 0 <= player[1].y
       /\ player[1].y <= height - PlayerSize

\* A frame of 2.1 s with the right key held has taken the player to the
\* right edge of the 800 px wide area (unclamped it would be at x = 925).
C23_Witness ==
    /\ lastOp.name = "frame"
    /\ lastOp.dt = 21
    /\ settings.inputType = "keyboard"
    /\ width = 800
    /\ player # <<>>
    /\ player[1].x = 750
    /\ isRunning


\* C24: in touch mode an update made while a grab is active puts the
\* player at the pointer position plus the grab offset, clamped to the
\* play area, whenever that position is clear of the obstacles.
C24_DragSetsPosition ==
    [][(/\ lastOp'.name = "update"
        /\ settings.inputType = "touch"
        /\ lastOp'.inp.isDragging
        /\ time - lastOp'.dt > 0)
       => LET inp == lastOp'.inp
              t == handleScreenBounds(
                      [player[1] EXCEPT !.x = inp.mouseX + inp.dragOffsetX,
                                        !.y = inp.mouseY + inp.dragOffsetY],
                      width, height)
          IN Clear(t, obstacles) => player'[1] = t]_vars


\* C25: after quitGame the game is neither running nor paused and holds
\* no player, no pursuer, no apples and no obstacles.
C25_QuitDiscards ==
    lastOp.name = "quitGame" =>
       /\ ~isRunning
       /\ ~isPaused
       /\ player = <<>>
       /\ badGuy = <<>>
       /\ apples = <<>>
       /\ obstacles = <<>>


\* C26: after every pursuer update the pursuer's speed is
\* (80 + 5 * score) * speedMultiplier for the score passed to that call,
\* whatever the speed was before; with the multiplier at 1 it is
\* 80 + 5 * score, which grows with the score.
C26_PursuerSpeed ==
    lastOp.name = "badGuyUpdate" =>
       LET b == badGuy[1]
       IN /\ b.speed.n * b.speedMultiplier.d
               = (BaseSpeed + SpeedPerPoint * score) * b.speedMultiplier.n * b.speed.d
          /\ b.speedMultiplier = [n |-> 1, d |-> 1]
                => b.speed = [n |-> 80 + 5 * score, d |-> 1]

\* The second pursuer update of a game whose score went from 24 to 25
\* between the two.
C26_Witness ==
    /\ lastOp.name = "badGuyUpdate"
    /\ frames = 2
    /\ score = 25
    /\ apples = <<>>
    /\ badGuy[1].speed = [n |-> 205, d |-> 1]


\* ---------------------------------------------------------------------
\* The two collision predicates: the player at (100, 100) and one other
\* entity (a pursuer, an apple or an obstacle) at a position around it,
\* then both predicates called on the pair, as the tests of
\* "Entity Collision" do.
\* ---------------------------------------------------------------------
PairCoords == {45, 95, 100, 105, 110, 140, 145, 155}
PairPlayer == NewPlayer(100, 100)
PairKinds == {"badGuy", "apple", "obstacle"}

InitPair ==
    /\ \E x \in PairCoords, y \in PairCoords, kind \in PairKinds :
          LET g == [NewGame(800, 600, 0) EXCEPT !.player = <<PairPlayer>>]
          IN Holds(CASE kind = "badGuy" -> [g EXCEPT !.badGuy = <<NewBadGuy(x, y)>>]
                     [] kind = "apple" ->
                          [g EXCEPT !.apples = <<NewApple(x, y, "standard")>>]
                     [] OTHER -> [g EXCEPT !.obstacles = <<NewObstacle(x, y)>>])
    /\ lastOp = [name |-> "new", dt |-> 0]
    /\ frames = 0
    /\ sessions = 0

\* The entity that is not the player.
PairOther ==
    IF badGuy # <<>> THEN badGuy[1]
    ELSE IF apples # <<>> THEN apples[1] ELSE obstacles[1]

\* player.checkCollision(other) and player.checkCircleCollision(other),
\* their results logged in this order (1 for true).
Collide ==
    /\ Commit([G EXCEPT !.out =
                 <<[cb |-> "checkCollision",
                    arg |-> IF checkCollision(player[1], PairOther) THEN 1 ELSE 0],
                   [cb |-> "checkCircleCollision",
                    arg |-> IF checkCircleCollision(player[1], PairOther)
                            THEN 1 ELSE 0]>>],
              [name |-> "collide", dt |-> 0])
    /\ UNCHANGED <<frames, sessions>>

NextPair == Collide

SpecPair == InitPair /\ [][NextPair]_vars

\* The centres of the two entities coincide.
SameCentre(a, b) ==
    /\ 2 * a.x + a.width = 2 * b.x + b.width
    /\ 2 * a.y + a.height = 2 * b.y + b.height

\* C27 as stated: some entity around the player overlaps it as a circle
\* but not as a box, and every entity whose centre coincides with the
\* player's overlaps it both ways.
C27_CircleWithoutBox ==
    /\ \E x \in PairCoords, y \in PairCoords :
          \E b \in {NewBadGuy(x, y), NewApple(x, y, "standard"), NewObstacle(x, y)} :
             /\ checkCircleCollision(player[1], b)
             /\ ~checkCollision(player[1], b)
    /\ \A x \in PairCoords, y \in PairCoords :
          \A b \in {NewBadGuy(x, y), NewApple(x, y, "standard"), NewObstacle(x, y)} :
             SameCentre(player[1], b)
                => checkCollision(player[1], b) /\ checkCircleCollision(player[1], b)

\* C27 (amended): circular overlap implies axis-aligned overlap (every
\* entity is a square and its circle is inscribed in it), and two
\* entities whose centres coincide overlap both ways.
C27_CircleImpliesBox ==
    lastOp.name = "collide" =>
       LET box == out[1].arg = 1
           circle == out[2].arg = 1
       IN /\ circle => box
          /\ SameCentre(player[1], PairOther) => (box /\ circle)

\* Boxes overlapping at a corner without circular overlap: the player at
\* (100, 100) and a pursuer at (140, 140).
C27_Witness ==
    /\ lastOp.name = "collide"
    /\ badGuy # <<>>
    /\ badGuy[1].x = 140
    /\ badGuy[1].y = 140
    /\ out[1] = [cb |-> "checkCollision", arg |-> 1]
    /\ out[2] = [cb |-> "checkCircleCollision", arg |-> 0]


\* C28: a frame callback of a game that is not running (gameOver has run,
\* or the session was quit) calls nothing, schedules no further frame
\* and leaves score, time, entities and flags as they were; only start
\* makes the game run again.
C28_EndedAbsorbing ==
    [][/\ (lastOp'.name = "frame" /\ ~isRunning) =>
             /\ out' = <<>>
             /\ pendingFrames' = 0
             /\ UNCHANGED <<score, time, player, badGuy, apples, obstacles,
                            highScore, storedHighScore, isRunning, isPaused,
                            appleTimer, backgroundColor, gameOverCalls,
                            settings>>
       /\ (~isRunning /\ isRunning') => lastOp'.name = "start"]_vars

\* The callback scheduled by the frame in which the time ran out has run:
\* nothing is pending any more.
C28_Witness ==
    /\ lastOp.name = "frame"
    /\ ~isRunning
    /\ gameOverCalls = 1
    /\ time = 0
    /\ pendingFrames = 0
    /\ out = <<>>


\* C29: at most one chain of frame callbacks drives the game: never more
\* than one callback is pending, and a rendering frame runs update (and
\* draw) at most once.
C29_OneChain ==
    /\ pendingFrames <= 1
    /\ lastOp.name = "frame" => Cardinality(CallsIn(out, "draw")) <= 1


\* C30: the update in which the time runs out does nothing but end the
\* session: no spawn attempt, no movement, no collision check, no apple
\* eaten; the spawn accumulator, the apples, the score and all positions
\* are as before the update.
C30_TimeoutSkipsRest ==
    [][(/\ lastOp'.name = "frame"
        /\ isRunning /\ ~isPaused
        /\ time - lastOp'.dt <= 0)
       => /\ UNCHANGED <<appleTimer, apples, score, player, badGuy, obstacles,
                         backgroundColor>>
          /\ CallsIn(out', "splice") = {}
          /\ CallsIn(out', "onScoreUpdate") = {}
          /\ CallsIn(out', "onTimeUpdate") = {}
          /\ gameOverCalls' = gameOverCalls + 1]_vars

\* A 60 s frame has ended a session in which an apple lay on the field
\* and the spawn accumulator stood at 0: both are as they were.
C30_Witness ==
    /\ lastOp.name = "frame"
    /\ lastOp.dt = 600
    /\ frames = 2
    /\ time = 0
    /\ ~isRunning
    /\ Len(apples) = 1
    /\ appleTimer = 0
    /\ score = 0


\* The player's circle overlaps the circle of one of the apples.
OnApple == \E i \in 1..Len(apples) : checkCircleCollision(player[1], apples[i])

\* C31: a frame in which the pursuer catches the player eats no apple:
\* the session is over, and no apple was removed and no score reported in
\* that frame after the catch, also when the player lies on an apple.
C31_CatchBeforeApples ==
    (lastOp.name = "frame" /\ ~isRunning /\ time > 0 /\ out # <<>>) =>
       /\ Overlap
       /\ \A i \in CallsIn(out, "onGameOver") :
             \A k \in (i + 1)..Len(out) :
                out[k].cb \notin {"splice", "onScoreUpdate"}
       /\ CallsIn(out, "splice") = {}
       /\ CallsIn(out, "onScoreUpdate") = {}

\* The pursuer has caught the player in a frame in which an apple lay
\* under the player: the apple is still there.
C31_Witness ==
    /\ lastOp.name = "frame"
    /\ ~isRunning
    /\ time > 0
    /\ Overlap
    /\ OnApple
    /\ CallsIn(out, "splice") = {}
    /\ EmittedIn(out, "onGameOver", score)


\* C32: an update that does not run out of time adds dt to the spawn
\* accumulator; if the sum exceeds 2 s the accumulator is set to 0 and at
\* most one apple is added, otherwise none is added; so one update never
\* adds two apples, however large dt is, and the accumulator never ends
\* an update above 2 s.
C32_SpawnTiming ==
    [][(lastOp'.name = "update" /\ time - lastOp'.dt > 0) =>
         LET at == appleTimer + lastOp'.dt
             eaten == Cardinality(CallsIn(out', "splice"))
         IN /\ appleTimer' = IF at > SpawnPeriod * TimeScale THEN 0 ELSE at
            /\ appleTimer' <= 2 * TimeScale
            /\ Len(apples') + eaten <= Len(apples) + 1
            /\ at <= SpawnPeriod * TimeScale => Len(apples') + eaten = Len(apples)]_vars

\* An update of 5 s, more than two spawn periods, has added one apple and
\* left the accumulator at 0.
C32_Witness ==
    /\ lastOp.name = "update"
    /\ lastOp.dt = 50
    /\ frames = 1
    /\ appleTimer = 0
    /\ Len(apples) = 1
    /\ CallsIn(out, "splice") = {}


\* The same while loop as RetryLoop, for the values `attempts` can have when
\* the loop is left: an accepted draw is counted and ends it, a rejected one
\* is counted and repeats it, and the loop is not entered at the cap.
RECURSIVE RetryAttempts_lateCap(_, _, _, _)
RetryAttempts_lateCap(good, cands, attempts, cap) ==
    IF attempts > cap THEN {attempts}
    ELSE (IF good # {} THEN {attempts + 1} ELSE {})
         \cup (IF good # cands
               THEN RetryAttempts_lateCap(good, cands, attempts + 1, cap)
               ELSE {})

RECURSIVE RetryAttempts(_, _, _, _)
RetryAttempts(good, cands, attempts, cap) ==
    IF attempts >= cap THEN {attempts}
    ELSE (IF good # {} THEN {attempts + 1} ELSE {})
         \cup (IF good # cands
               THEN RetryAttempts(good, cands, attempts + 1, cap)
               ELSE {})

\* Game.spawnApple: the numbers of draws its loop can make.
SpawnAttempts(obs, w, h) ==
    LET cands == {NewApple(DrawPos(r[1], w, AppleSize),
                           DrawPos(r[2], h, AppleSize), "standard") :
                  r \in AppleDraws}
        good == {a \in cands :
                 \A j \in 1..Len(obs) : ~checkCollision(obs[j], a)}
    IN RetryAttempts(good, cands, 0, AppleAttempts)

\* Game.generateObstacles: the numbers of draws the loop for one obstacle
\* can make.
PlaceAttempts(obs, w, h) ==
    LET p == NewPlayer(w \div 2, h \div 2)
        cands == {NewObstacle(DrawPos(r[1], w, ObstacleSize),
                              DrawPos(r[2], h, ObstacleSize)) :
                  r \in ObstacleDraws}
        good == {o \in cands :
                 /\ ~checkCircleCollision(o, p)
                 /\ \A j \in 1..Len(obs) : ~checkCircleCollision(o, obs[j])}
    IN RetryAttempts(good, cands, 0, ObstacleAttempts)

\* C33: placement ends within its cap: on the canvas and among the
\* obstacles of any reachable state, spawnApple makes between 1 and 20
\* draws, and the loop of generateObstacles makes between 1 and 50 draws
\* for each obstacle it was asked for, whatever was placed before it.
C33_AttemptsCapped ==
    /\ \A n \in SpawnAttempts(obstacles, width, height) :
          n \in 1..AppleAttempts
    /\ \A k \in 0..Len(obstacles) :
          \A n \in PlaceAttempts(SubSeq(obstacles, 1, k), width, height) :
             n \in 1..ObstacleAttempts

\* A running session in which an apple draw can land on the obstacle and an
\* obstacle draw on the player's start or on the obstacle, so that either
\* loop can use all its attempts.
C33_Witness ==
    /\ isRunning
    /\ Len(obstacles) >= 1
    /\ AppleAttempts \in SpawnAttempts(obstacles, width, height)
    /\ ObstacleAttempts \in PlaceAttempts(<<>>, width, height)
    /\ ObstacleAttempts \in PlaceAttempts(obstacles, width, height)


\* C34: the obstacles of a session keep clear, by the axis-aligned box
\* test, of the box of the player's start position and of one another.
C34_ObstaclesApart ==
    /\ \A i \in 1..Len(obstacles) :
          ~checkCollision(obstacles[i],
                          NewPlayer(width \div 2, height \div 2))
    /\ \A i, j \in 1..Len(obstacles) :
          i # j => ~checkCollision(obstacles[i], obstacles[j])


\* C35: a paused game is a running game: in every reachable state
\* isPaused implies isRunning.
C35_PausedIsRunning == isPaused => isRunning

\* A frame callback has run while the game was paused.
C35_Witness ==
    /\ isPaused
    /\ isRunning
    /\ lastOp.name = "frame"
    /\ frames >= 1


\* C36: the time shown is never stale: a frame that has run update has
\* called onTimeUpdate, and the last value it passed is the ceiling of the
\* remaining time at the end of the update, also when an apple was eaten
\* and when the time ran out.
C36_TimeShown ==
    (lastOp.name = "frame" /\ out # <<>>) =>
       /\ CallsIn(out, "onTimeUpdate") # {}
       /\ \A i \in CallsIn(out, "onTimeUpdate") :
             (\A j \in CallsIn(out, "onTimeUpdate") : j <= i)
                => out[i].arg = CeilSeconds(time)


\* C37: when onGameOver is called the high score is at least the final
\* score passed to it: the high score at the end of the step is, and it
\* was not raised after the call.
C37_HighScoreAtGameOver ==
    \A i \in CallsIn(out, "onGameOver") :
       /\ highScore >= out[i].arg
       /\ \A j \in CallsIn(out, "setItem") : j < i

\* A session has ended with a score above the high score before it.
C37_Witness ==
    /\ lastOp.name = "frame"
    /\ ~isRunning
    /\ score >= 1
    /\ EmittedIn(out, "onGameOver", score)
    /\ EmittedIn(out, "setItem", score)
    /\ highScore = score


\* C38: an update that does not end the session eats every apple the
\* player's circle overlaps, each once, and no other: the apples left are,
\* in their order, those (a newly spawned one included) the player does
\* not overlap, and for the k apples gone there are k removals, k points
\* and k seconds.
C38_EatsAllOverlapped ==
    [][(lastOp'.name = "update" /\ time - lastOp'.dt > 0 /\ isRunning') =>
         \E sp \in (IF appleTimer + lastOp'.dt > SpawnPeriod * TimeScale
                    THEN SpawnLoop(obstacles, width, height) ELSE {<<>>}) :
            LET pre == apples \o sp
                keep == SelectSeq(pre, LAMBDA a :
                                  ~checkCircleCollision(player'[1], a))
                k == Len(pre) - Len(keep)
            IN /\ apples' = keep
               /\ Cardinality(CallsIn(out', "splice")) = k
               /\ score' = score + k
               /\ time' = time - lastOp'.dt + k * StandardTime * TimeScale]_vars

\* One update has eaten the two apples on the player and left the third.
C38_Witness ==
    /\ lastOp.name = "update"
    /\ frames = 1
    /\ isRunning
    /\ score = 2
    /\ Cardinality(CallsIn(out, "splice")) = 2
    /\ apples = <<NewApple(600, 100, "standard")>>

====
